---- MODULE Spec2Model ----
(***************************************************************************)
(* A model of the Sphere cassette block decoder (spherecas.c) and of the   *)
(* way sphere2bin drives it (main.c).                                      *)
(*                                                                         *)
(* The decoder is a byte-at-a-time state machine over struct               *)
(* spherecas_state.  Every case of the switch in spherecas_read_byte is an *)
(* operator from (state, byte) to the new state and the block events the   *)
(* case hands to the callback, and an action that applies it.              *)
(***************************************************************************)
EXTENDS Integers, Sequences, FiniteSets, TLC

(***************************************************************************)
(* Program constants.                                                      *)
(***************************************************************************)
HEADER_SYNC == 22
HEADER_ESC == 27
HEADER_ETB == 23

READ_SYNC == 0
READ_HEADER_START == 1
READ_DATA_LENGTH_HIGH == 2
READ_DATA_LENGTH_LOW == 3
READ_BLOCK_NAME_1 == 4
READ_BLOCK_NAME_2 == 5
READ_DATA == 6
READ_ETB == 7
READ_CHECKSUM == 8

SPHERECAS_ERROR_NONE == 0
SPHERECAS_ERROR_TRAILER == 1
SPHERECAS_ERROR_CHECKSUM == 2

SPHERECAS_BLOCKTYPE_TEXT == "Text"
SPHERECAS_BLOCKTYPE_OBJECT == "Object"

\* uint8_t and uint16_t arithmetic is modulo these.
UINT8_MOD == 256
UINT16_MOD == 65536

\* uint8_t data[0x10000]
DataSize == 65536

(***************************************************************************)
(* Bounds of the model.                                                    *)
(***************************************************************************)
\* Bytes the free-running specification feeds: the three markers, 0x00 and
\* 0x01 (short declared lengths, 7-bit clean data), 0xFF (high bit set, and
\* the length bytes of the declared length 0xFFFF).
Bytes == {0, 1, HEADER_SYNC, HEADER_ETB, HEADER_ESC, 255}

\* Number of bytes the free-running specification feeds.
MaxFeeds == 9

\* Longest sync run and longest payload of a recorded block.
MaxSync == 2
MaxPayload == 2

\* The long block: cells of data[] still unwritten where its specification
\* starts, stores past the array it follows, bytes it feeds.
OverflowRoom == 2
OverflowFeeds == 3
OverflowBytes == {0, 1, 255}

(***************************************************************************)
(* C operators on unsigned integers.                                       *)
(***************************************************************************)
RECURSIVE BitOr(_, _)
BitOr(a, b) ==
    IF a = 0 THEN b
    ELSE IF b = 0 THEN a
    ELSE (IF a % 2 = 1 \/ b % 2 = 1 THEN 1 ELSE 0) + 2 * BitOr(a \div 2, b \div 2)

RECURSIVE BitAnd(_, _)
BitAnd(a, b) ==
    IF a = 0 \/ b = 0 THEN 0
    ELSE (IF a % 2 = 1 /\ b % 2 = 1 THEN 1 ELSE 0) + 2 * BitAnd(a \div 2, b \div 2)

\* data[i] = byte on the array kept as the sequence of the cells written so
\* far (i counts from 0; the cells are written in order from 0 in every
\* block, so i is at most the number of cells ever written).
StoreByte(data, i, byte) ==
    IF i < Len(data) THEN [data EXCEPT ![i + 1] = byte] ELSE Append(data, byte)

(***************************************************************************)
(* The callback.  The model keeps the calls, in order: each call's         *)
(* arguments, the data argument as the `length` bytes it points to.        *)
(***************************************************************************)
spherecas_block_read(state, block_name, data, length, type, error) ==
    [block_name |-> block_name,
     data |-> SubSeq(data, 1, length),
     length |-> length,
     type |-> type,
     error |-> error]

(***************************************************************************)
(* spherecas.c.  Each case of spherecas_read_byte gives [state |-> the     *)
(* state after the byte, out |-> the callback calls made, in order].       *)
(* Bytes are kept as 0..255, also in block_name (a char array: the same    *)
(* bits).                                                                  *)
(***************************************************************************)
\* Faulty variant: the reset keeps the block type.
Mut_begin_read_KeepsType(state) ==
    [state EXCEPT !.read_state = READ_SYNC,
                  !.data_count_expected = 0,
                  !.data_count_read = 0,
                  !.checksum = 0]

spherecas_begin_read(state) ==
    [state EXCEPT !.read_state = READ_SYNC,
                  !.data_count_expected = 0,
                  !.data_count_read = 0,
                  !.checksum = 0,
                  !.block_type = SPHERECAS_BLOCKTYPE_TEXT]

\* Faulty variant: an escape marker without a sync byte starts a header.
Mut_SYNC_AcceptsEsc(state, byte) ==
    [state |-> IF byte = HEADER_SYNC
               THEN [state EXCEPT !.read_state = READ_HEADER_START]
               ELSE IF byte = HEADER_ESC
               THEN [state EXCEPT !.read_state = READ_DATA_LENGTH_HIGH]
               ELSE state,
     out |-> << >>]

Case_READ_SYNC(state, byte) ==
    [state |-> IF byte = HEADER_SYNC
               THEN [state EXCEPT !.read_state = READ_HEADER_START]
               ELSE state,
     out |-> << >>]

\* Faulty variant: a second sync byte is taken for a desync.
Mut_HEADER_START_OneSync(state, byte) ==
    [state |-> IF byte = HEADER_ESC
               THEN [state EXCEPT !.read_state = READ_DATA_LENGTH_HIGH]
               ELSE [state EXCEPT !.read_state = READ_SYNC],
     out |-> << >>]

Case_READ_HEADER_START(state, byte) ==
    [state |-> IF byte = HEADER_ESC
               THEN [state EXCEPT !.read_state = READ_DATA_LENGTH_HIGH]
               ELSE IF byte = HEADER_SYNC
               THEN state
               ELSE [state EXCEPT !.read_state = READ_SYNC],
     out |-> << >>]

Case_READ_DATA_LENGTH_HIGH(state, byte) ==
    [state |-> [state EXCEPT !.data_count_expected = (byte * 256) % UINT16_MOD,
                             !.read_state = @ + 1],
     out |-> << >>]

Case_READ_DATA_LENGTH_LOW(state, byte) ==
    [state |-> [state EXCEPT !.data_count_expected = (BitOr(@, byte) + 1) % UINT16_MOD,
                             !.read_state = @ + 1],
     out |-> << >>]

Case_READ_BLOCK_NAME_1(state, byte) ==
    [state |-> [state EXCEPT !.block_name[1] = byte,
                             !.read_state = @ + 1],
     out |-> << >>]

Case_READ_BLOCK_NAME_2(state, byte) ==
    [state |-> [state EXCEPT !.block_name[2] = byte,
                             !.read_state = @ + 1],
     out |-> << >>]

\* Faulty variant: the block is handed over as soon as its last byte is stored.
Mut_DATA_EmitsWhenFull(state, byte) ==
    LET stored == [state EXCEPT !.data = StoreByte(@, state.data_count_read, byte),
                                !.data_count_read = @ + 1,
                                !.checksum = (@ + byte) % UINT8_MOD]
        full == stored.data_count_read = stored.data_count_expected
        counted == IF full THEN [stored EXCEPT !.read_state = @ + 1] ELSE stored
    IN  [state |-> IF BitAnd(byte, 128) # 0
                   THEN [counted EXCEPT !.block_type = SPHERECAS_BLOCKTYPE_OBJECT]
                   ELSE counted,
         out |-> IF full
                 THEN << spherecas_block_read(stored, stored.block_name, stored.data,
                                              stored.data_count_read, stored.block_type,
                                              SPHERECAS_ERROR_NONE) >>
                 ELSE << >>]

Case_READ_DATA(state, byte) ==
    LET stored == [state EXCEPT !.data = StoreByte(@, state.data_count_read, byte),
                                !.data_count_read = @ + 1,
                                !.checksum = (@ + byte) % UINT8_MOD]
        counted == IF stored.data_count_read = stored.data_count_expected
                   THEN [stored EXCEPT !.read_state = @ + 1]
                   ELSE stored
    IN  [state |-> IF BitAnd(byte, 128) # 0
                   THEN [counted EXCEPT !.block_type = SPHERECAS_BLOCKTYPE_OBJECT]
                   ELSE counted,
         out |-> << >>]

\* READ_DATA when data_count_read is 0x10000 or more: the store
\* data[data_count_read++] = byte lands outside the array, on whatever the
\* build placed there.  The two outcomes that let the call return: the cell is
\* the checksum field (the member after data[] in spherecas.h), or a cell the
\* decoder never reads.  The rest of the case runs as written.
Case_READ_DATA_Overrun(state, byte, onChecksum) ==
    LET landed == IF onChecksum THEN [state EXCEPT !.checksum = byte] ELSE state
        stored == [landed EXCEPT !.data_count_read = @ + 1,
                                 !.checksum = (@ + byte) % UINT8_MOD]
        counted == IF stored.data_count_read = stored.data_count_expected
                   THEN [stored EXCEPT !.read_state = @ + 1]
                   ELSE stored
    IN  [state |-> IF BitAnd(byte, 128) # 0
                   THEN [counted EXCEPT !.block_type = SPHERECAS_BLOCKTYPE_OBJECT]
                   ELSE counted,
         out |-> << >>]

\* Faulty variant: the block is handed over at the end marker.
Mut_ETB_EmitsOnMarker(state, byte) ==
    IF byte = HEADER_ETB
    THEN [state |-> [state EXCEPT !.read_state = READ_CHECKSUM],
          out |-> << spherecas_block_read(state, state.block_name, state.data,
                                          state.data_count_read, state.block_type,
                                          SPHERECAS_ERROR_NONE) >>]
    ELSE [state |-> spherecas_begin_read(state),
          out |-> << spherecas_block_read(state, state.block_name, state.data,
                                          state.data_count_read, state.block_type,
                                          SPHERECAS_ERROR_TRAILER) >>]

\* Faulty variant: the byte that is no end marker is looked at again as a sync byte.
Mut_ETB_ReconsidersByte(state, byte) ==
    IF byte = HEADER_ETB
    THEN [state |-> [state EXCEPT !.read_state = READ_CHECKSUM], out |-> << >>]
    ELSE [state |-> Case_READ_SYNC(spherecas_begin_read(state), byte).state,
          out |-> << spherecas_block_read(state, state.block_name, state.data,
                                          state.data_count_read, state.block_type,
                                          SPHERECAS_ERROR_TRAILER) >>]

\* Faulty variant: the end marker is summed into the checksum.
Mut_ETB_SumsMarker(state, byte) ==
    IF byte = HEADER_ETB
    THEN [state |-> [state EXCEPT !.read_state = READ_CHECKSUM,
                                  !.checksum = (@ + byte) % UINT8_MOD],
          out |-> << >>]
    ELSE [state |-> spherecas_begin_read(state),
          out |-> << spherecas_block_read(state, state.block_name, state.data,
                                          state.data_count_read, state.block_type,
                                          SPHERECAS_ERROR_TRAILER) >>]

Case_READ_ETB(state, byte) ==
    IF byte = HEADER_ETB
    THEN [state |-> [state EXCEPT !.read_state = READ_CHECKSUM], out |-> << >>]
    ELSE [state |-> spherecas_begin_read(state),
          out |-> << spherecas_block_read(state, state.block_name, state.data,
                                          state.data_count_read, state.block_type,
                                          SPHERECAS_ERROR_TRAILER) >>]

\* Faulty variant: only a checksum byte below the sum is an error.
Mut_CHECKSUM_Less(state, byte) ==
    LET error == IF byte < state.checksum
                 THEN SPHERECAS_ERROR_CHECKSUM
                 ELSE SPHERECAS_ERROR_NONE
    IN  [state |-> spherecas_begin_read(state),
         out |-> << spherecas_block_read(state, state.block_name, state.data,
                                         state.data_count_read, state.block_type,
                                         error) >>]

\* Faulty variant: the reset comes before the callback.
Mut_CHECKSUM_ResetsFirst(state, byte) ==
    LET error == IF byte # state.checksum
                 THEN SPHERECAS_ERROR_CHECKSUM
                 ELSE SPHERECAS_ERROR_NONE
        reset == spherecas_begin_read(state)
    IN  [state |-> reset,
         out |-> << spherecas_block_read(reset, reset.block_name, reset.data,
                                         reset.data_count_read, reset.block_type,
                                         error) >>]

\* Faulty variant: no reset after a checksum error.
Mut_CHECKSUM_NoResetOnError(state, byte) ==
    LET error == IF byte # state.checksum
                 THEN SPHERECAS_ERROR_CHECKSUM
                 ELSE SPHERECAS_ERROR_NONE
    IN  [state |-> IF error = SPHERECAS_ERROR_NONE
                   THEN spherecas_begin_read(state)
                   ELSE [state EXCEPT !.read_state = READ_SYNC],
         out |-> << spherecas_block_read(state, state.block_name, state.data,
                                         state.data_count_read, state.block_type,
                                         error) >>]

Case_READ_CHECKSUM(state, byte) ==
    LET error == IF byte # state.checksum
                 THEN SPHERECAS_ERROR_CHECKSUM
                 ELSE SPHERECAS_ERROR_NONE
    IN  [state |-> spherecas_begin_read(state),
         out |-> << spherecas_block_read(state, state.block_name, state.data,
                                         state.data_count_read, state.block_type,
                                         error) >>]

spherecas_read_byte(state, byte) ==
    CASE state.read_state = READ_SYNC -> Case_READ_SYNC(state, byte)
      [] state.read_state = READ_HEADER_START -> Case_READ_HEADER_START(state, byte)
      [] state.read_state = READ_DATA_LENGTH_HIGH -> Case_READ_DATA_LENGTH_HIGH(state, byte)
      [] state.read_state = READ_DATA_LENGTH_LOW -> Case_READ_DATA_LENGTH_LOW(state, byte)
      [] state.read_state = READ_BLOCK_NAME_1 -> Case_READ_BLOCK_NAME_1(state, byte)
      [] state.read_state = READ_BLOCK_NAME_2 -> Case_READ_BLOCK_NAME_2(state, byte)
      [] state.read_state = READ_DATA -> Case_READ_DATA(state, byte)
      [] state.read_state = READ_ETB -> Case_READ_ETB(state, byte)
      [] state.read_state = READ_CHECKSUM -> Case_READ_CHECKSUM(state, byte)
      [] OTHER -> [state |-> state, out |-> << >>]

\* The loop of spherecas_read_bytes over data[1..count], as the state and the
\* callback calls it ends with.
RECURSIVE Mut_read_bytes_StopsEarly(_, _, _)
Mut_read_bytes_StopsEarly(state, data, count) ==
    IF count > 1
    THEN LET first == spherecas_read_byte(state, Head(data))
             rest == Mut_read_bytes_StopsEarly(first.state, Tail(data), count - 1)
         IN  [state |-> rest.state, out |-> first.out \o rest.out]
    ELSE [state |-> state, out |-> << >>]

RECURSIVE spherecas_read_bytes(_, _, _)
spherecas_read_bytes(state, data, count) ==
    IF count > 0
    THEN LET first == spherecas_read_byte(state, Head(data))
             rest == spherecas_read_bytes(first.state, Tail(data), count - 1)
         IN  [state |-> rest.state, out |-> first.out \o rest.out]
    ELSE [state |-> state, out |-> << >>]

(***************************************************************************)
(* The tape format (spherecas.h, "Format details").  A recorded block is   *)
(* described by its fields; a block that was damaged has fields that no    *)
(* longer agree (a length that is not the payload's, another end marker,   *)
(* another checksum).                                                      *)
(***************************************************************************)
RECURSIVE Sum(_)
Sum(seq) == IF seq = << >> THEN 0 ELSE Head(seq) + Sum(Tail(seq))

SyncRun(n) == [i \in 1..n |-> HEADER_SYNC]

EncodeBlock(d) ==
    SyncRun(d.sync) \o <<HEADER_ESC, d.hi, d.lo>> \o d.name \o d.payload
        \o <<d.etb, d.cks>> \o d.pad

RECURSIVE EncodeTape(_)
EncodeTape(t) == IF t = << >> THEN << >> ELSE EncodeBlock(Head(t)) \o EncodeTape(Tail(t))

\* Number of payload bytes a length field declares: the 16-bit value plus one.
DeclaredCount(d) == (d.hi * 256 + d.lo + 1) % UINT16_MOD

WellFormed(d) ==
    /\ d.sync >= 1
    /\ Len(d.payload) = DeclaredCount(d)
    /\ d.etb = HEADER_ETB
    /\ d.cks = Sum(d.payload) % UINT8_MOD

\* Offsets in the encoding of a block: the bytes up to and including the
\* second name byte, the end marker, the checksum byte.
HeaderEnd(d) == d.sync + 5
EtbPos(d) == HeaderEnd(d) + Len(d.payload) + 1
CksPos(d) == EtbPos(d) + 1

(***************************************************************************)
(* The tapes the recorded-input specification reads.                       *)
(***************************************************************************)
PayloadBytes == {HEADER_SYNC, 128}
Payloads == UNION {[1..n -> PayloadBytes] : n \in 0..MaxPayload}
LengthFields == {<<0, n>> : n \in 0..(MaxPayload - 1)} \cup {<<1, 0>>, <<255, 255>>}
EtbBytes == {HEADER_ETB, HEADER_SYNC, 0}
ChecksumBytes(p) == {Sum(p) % UINT8_MOD, (Sum(p) + 1) % UINT8_MOD}

Block(sync, len, name, payload, etb, cks) ==
    [sync |-> sync, hi |-> len[1], lo |-> len[2], name |-> name,
     payload |-> payload, etb |-> etb, cks |-> cks, pad |-> <<cks, cks, cks>>]

\* The first block of a tape: recorded well or damaged.
FirstBlocks ==
    UNION {{Block(sync, len, <<65, 66>>, p, etb, cks) :
                sync \in 1..MaxSync, len \in LengthFields,
                etb \in EtbBytes, cks \in ChecksumBytes(p)} : p \in Payloads}

\* The block after it: well-formed, of no, one or two payload bytes.
SecondPayloads == {<< >>, <<1>>, <<128, 1>>}

SecondBlocks ==
    {Block(MaxSync, IF p = << >> THEN <<255, 255>> ELSE <<0, Len(p) - 1>>,
           <<67, 68>>, p, HEADER_ETB, Sum(p) % UINT8_MOD) : p \in SecondPayloads}

Tapes ==
    {<<a>> : a \in FirstBlocks} \cup {<<a, b>> : a \in FirstBlocks, b \in SecondBlocks}

\* Tapes whose first block is well-formed and ends in any three trailer bytes
\* out of PadBytes.
PadBytes == {0, HEADER_SYNC, HEADER_ESC}
Pads == [1..3 -> PadBytes]

PadTapes ==
    {<<[a EXCEPT !.pad = pad], b>> :
        a \in {f \in FirstBlocks : WellFormed(f) /\ f.sync = 1},
        pad \in Pads, b \in SecondBlocks}

\* Tapes for the command line: up to MaxBlocks blocks, recorded well or with a
\* damaged end marker, with a name of two letters or a name holding a NUL.
MaxBlocks == 3
CliNames == {<<65, 66>>, <<65, 0>>}
CliPayloads == {<<1>>, <<128, 1>>}

CliBlocks ==
    {Block(1, <<0, Len(p) - 1>>, n, p, etb, Sum(p) % UINT8_MOD) :
        n \in CliNames, p \in CliPayloads, etb \in {HEADER_ETB, 0}}

CliTapes == UNION {[1..n -> CliBlocks] : n \in 1..MaxBlocks}

\* The bytes these tapes hold.
BytesOf(tapes) == UNION {{EncodeTape(t)[i] : i \in 1..Len(EncodeTape(t))} : t \in tapes}

TapeBytes == BytesOf(Tapes) \cup BytesOf(PadTapes) \cup BytesOf(CliTapes)

(***************************************************************************)
(* State.                                                                  *)
(*   state   struct spherecas_state                                        *)
(*   events  the callback's calls so far                                   *)
(*   fed     number of bytes fed so far                                    *)
(*   tape    the blocks recorded on the input (none: bytes from anywhere)  *)
(*   stream  the bytes of the input file                                   *)
(*   ListOnly, CurrentBlockIndex  the globals of main.c                    *)
(*   stdout  the lines printed after the table header                      *)
(*   files   the output files written, in order                            *)
(*   memory  "ok", "overrun" once a byte was stored outside data[], or     *)
(*           "crashed" once such a store ended the process                 *)
(***************************************************************************)
VARIABLES state, events, fed, tape, stream,
          ListOnly, CurrentBlockIndex, stdout, files, memory

vars == <<state, events, fed, tape, stream,
          ListOnly, CurrentBlockIndex, stdout, files, memory>>

\* The fields spherecas_begin_read does not set hold whatever the caller's
\* memory held (block_name; no cell of data has been written).
UninitNames == {<<0, 0>>, <<255, 255>>}

InitState(name) ==
    spherecas_begin_read([read_state |-> READ_SYNC,
                          block_name |-> name,
                          data_count_expected |-> 0,
                          data_count_read |-> 0,
                          data |-> << >>,
                          checksum |-> 0,
                          block_type |-> SPHERECAS_BLOCKTYPE_TEXT])

\* main.c:43-44 and the start of the process.
InitCli(listOnly) ==
    /\ ListOnly = listOnly
    /\ CurrentBlockIndex = 0
    /\ stdout = << >>
    /\ files = << >>
    /\ memory = "ok"

\* A caller that feeds any bytes (option -l given).
Init ==
    /\ state \in {InitState(n) : n \in UninitNames}
    /\ events = << >>
    /\ fed = 0
    /\ tape = << >>
    /\ stream = << >>
    /\ InitCli(TRUE)

\* main: the whole input file is in memory, the decoder has been reset
\* (option -l given).
InitTape ==
    /\ state \in {InitState(n) : n \in UninitNames}
    /\ events = << >>
    /\ fed = 0
    /\ tape \in Tapes
    /\ stream = EncodeTape(tape)
    /\ InitCli(TRUE)

\* The string sprintf builds from the two name characters: a C string ends
\* at its first NUL.
CString(chars) ==
    IF chars[1] = 0 THEN << >>
    ELSE IF chars[2] = 0 THEN <<chars[1]>>
    ELSE chars

\* The file name "%s-%c%c_%d.bin" as fopen reads it: the name characters up
\* to a NUL, and the ordinal when no NUL cut it off.
OutputName(e) ==
    [name |-> CString(e.block_name),
     ordinal |-> IF 0 \in {e.block_name[1], e.block_name[2]}
                 THEN << >>
                 ELSE <<CurrentBlockIndex + 1>>]

\* The listing line of a callback call.
ListingLine(e) ==
    [line |-> "block", ordinal |-> CurrentBlockIndex + 1, name |-> e.block_name,
     length |-> e.length, type |-> e.type, error |-> e.error]

\* What a callback call does to the globals, the terminal and the files;
\* opened tells whether fopen gave a file.
BlockReadStep(e, opened) ==
    IF ListOnly
    THEN /\ stdout' = Append(stdout, ListingLine(e))
         /\ CurrentBlockIndex' = CurrentBlockIndex + 1
         /\ files' = files
    ELSE IF ~opened
    THEN /\ stdout' = stdout \o <<ListingLine(e),
                                   [line |-> "failed", file |-> OutputName(e)]>>
         /\ CurrentBlockIndex' = CurrentBlockIndex
         /\ files' = files
    ELSE /\ stdout' = stdout \o <<ListingLine(e),
                                   [line |-> "written", file |-> OutputName(e)]>>
         /\ CurrentBlockIndex' = CurrentBlockIndex + 1
         /\ files' = Append(files, [file |-> OutputName(e), data |-> e.data])

\* main on a tape with any trailer bytes (option -l given).
InitPad ==
    /\ state \in {InitState(n) : n \in UninitNames}
    /\ events = << >>
    /\ fed = 0
    /\ tape \in PadTapes
    /\ stream = EncodeTape(tape)
    /\ InitCli(TRUE)

\* A decoder deep in a block that declared length 0xFFFF: it was fed
\* 16 1B FF FF 41 42 and then DataSize - OverflowRoom bytes 00.  The header
\* leaves READ_DATA with data_count_expected 0 and data_count_read 0, and each
\* 00 after it stores one cell and changes no other field.
LongBlockHeader == <<HEADER_SYNC, HEADER_ESC, 255, 255, 65, 66>>

InitOverflow ==
    /\ state = [spherecas_read_bytes(InitState(<<0, 0>>), LongBlockHeader,
                                      Len(LongBlockHeader)).state
                    EXCEPT !.data = [i \in 1..(DataSize - OverflowRoom) |-> 0],
                           !.data_count_read = DataSize - OverflowRoom]
    /\ events = << >>
    /\ fed = Len(LongBlockHeader) + DataSize - OverflowRoom
    /\ tape = << >>
    /\ stream = << >>
    /\ InitCli(TRUE)

\* main, with or without option -l.
InitMain ==
    /\ state \in {InitState(n) : n \in UninitNames}
    /\ events = << >>
    /\ fed = 0
    /\ tape \in CliTapes
    /\ stream = EncodeTape(tape)
    /\ \E listOnly \in BOOLEAN : InitCli(listOnly)

\* One call of spherecas_read_byte, by the case it takes, with the callback
\* call it makes, if any.
Deliver(r) ==
    /\ state' = r.state
    /\ events' = events \o r.out
    /\ fed' = fed + 1
    /\ IF r.out = << >>
       THEN UNCHANGED <<CurrentBlockIndex, stdout, files>>
       ELSE \E opened \in BOOLEAN : BlockReadStep(r.out[1], opened)
    /\ UNCHANGED <<tape, stream, ListOnly, memory>>

ReadSync(byte) ==
    /\ state.read_state = READ_SYNC
    /\ Deliver(Case_READ_SYNC(state, byte))

ReadHeaderStart(byte) ==
    /\ state.read_state = READ_HEADER_START
    /\ Deliver(Case_READ_HEADER_START(state, byte))

ReadDataLengthHigh(byte) ==
    /\ state.read_state = READ_DATA_LENGTH_HIGH
    /\ Deliver(Case_READ_DATA_LENGTH_HIGH(state, byte))

ReadDataLengthLow(byte) ==
    /\ state.read_state = READ_DATA_LENGTH_LOW
    /\ Deliver(Case_READ_DATA_LENGTH_LOW(state, byte))

ReadBlockName1(byte) ==
    /\ state.read_state = READ_BLOCK_NAME_1
    /\ Deliver(Case_READ_BLOCK_NAME_1(state, byte))

ReadBlockName2(byte) ==
    /\ state.read_state = READ_BLOCK_NAME_2
    /\ Deliver(Case_READ_BLOCK_NAME_2(state, byte))

\* The byte is stored inside the array (data_count_read below 0x10000).
ReadData(byte) ==
    /\ state.read_state = READ_DATA
    /\ state.data_count_read < DataSize
    /\ Deliver(Case_READ_DATA(state, byte))

\* The byte is stored outside the array: the process ends there, or the
\* call returns with one of the outcomes of Case_READ_DATA_Overrun.
ReadDataOverflow(byte) ==
    /\ state.read_state = READ_DATA
    /\ state.data_count_read >= DataSize
    /\ \/ /\ memory' = "crashed"
          /\ UNCHANGED <<state, events, fed>>
       \/ \E onChecksum \in BOOLEAN :
             /\ memory' = "overrun"
             /\ state' = Case_READ_DATA_Overrun(state, byte, onChecksum).state
             /\ events' = events
             /\ fed' = fed + 1
    /\ UNCHANGED <<tape, stream, ListOnly, CurrentBlockIndex, stdout, files>>

ReadEtb(byte) ==
    /\ state.read_state = READ_ETB
    /\ Deliver(Case_READ_ETB(state, byte))

ReadChecksum(byte) ==
    /\ state.read_state = READ_CHECKSUM
    /\ Deliver(Case_READ_CHECKSUM(state, byte))

\* The caller's next byte: any byte, or the next byte of the input file
\* (the loop of spherecas_read_bytes, main.c:135).
AnyByte == fed < MaxFeeds

TapeByte(byte) == fed < Len(stream) /\ byte = stream[fed + 1]

Next ==
    \E byte \in Bytes :
        \/ AnyByte /\ ReadSync(byte)
        \/ AnyByte /\ ReadHeaderStart(byte)
        \/ AnyByte /\ ReadDataLengthHigh(byte)
        \/ AnyByte /\ ReadDataLengthLow(byte)
        \/ AnyByte /\ ReadBlockName1(byte)
        \/ AnyByte /\ ReadBlockName2(byte)
        \/ AnyByte /\ ReadData(byte)
        \/ AnyByte /\ ReadEtb(byte)
        \/ AnyByte /\ ReadChecksum(byte)

NextTape ==
    \E byte \in TapeBytes :
        \/ TapeByte(byte) /\ ReadSync(byte)
        \/ TapeByte(byte) /\ ReadHeaderStart(byte)
        \/ TapeByte(byte) /\ ReadDataLengthHigh(byte)
        \/ TapeByte(byte) /\ ReadDataLengthLow(byte)
        \/ TapeByte(byte) /\ ReadBlockName1(byte)
        \/ TapeByte(byte) /\ ReadBlockName2(byte)
        \/ TapeByte(byte) /\ ReadData(byte)
        \/ TapeByte(byte) /\ ReadEtb(byte)
        \/ TapeByte(byte) /\ ReadChecksum(byte)

\* The caller's next byte deep in the long block, while the process runs.
OverflowByte ==
    /\ memory # "crashed"
    /\ state.data_count_read < DataSize + OverflowFeeds

NextOverflow ==
    \E byte \in OverflowBytes :
        \/ OverflowByte /\ ReadData(byte)
        \/ OverflowByte /\ ReadDataOverflow(byte)

\* main.c:137, after spherecas_read_bytes has returned.
Done ==
    /\ fed = Len(stream)
    /\ \A k \in 1..Len(stdout) : stdout[k].line # "done"
    /\ stdout' = Append(stdout, [line |-> "done", count |-> CurrentBlockIndex])
    /\ UNCHANGED <<state, events, fed, tape, stream,
                   ListOnly, CurrentBlockIndex, files, memory>>

NextCli == NextTape \/ Done

Spec == Init /\ [][Next]_vars

SpecTape == InitTape /\ [][NextTape]_vars

SpecOverflow == InitOverflow /\ [][NextOverflow]_vars

SpecPad == InitPad /\ [][NextTape]_vars

SpecCli == InitMain /\ [][NextCli]_vars

(***************************************************************************)
(* Properties.                                                             *)
(***************************************************************************)
AllBytes == 0..255

LastEvent == events[Len(events)]

\* The event a block gives when the decoder takes it as recorded.
SameBlock(e, d) ==
    /\ e.block_name = d.name
    /\ e.length = Len(d.payload)
    /\ e.data = d.payload

\* C1: a well-formed first block, fed byte by byte to a decoder fresh from
\* spherecas_begin_read, makes the callback run exactly once, at the
\* checksum byte, with no error, the block's name, its payload length and
\* its payload bytes in order.
C1_WellFormedBlockDecoded ==
    (tape # << >> /\ WellFormed(tape[1])) =>
        LET d == tape[1] IN
        /\ fed < CksPos(d) => events = << >>
        /\ (fed >= CksPos(d) /\ fed <= Len(EncodeBlock(d))) =>
              /\ Len(events) = 1
              /\ events[1].error = SPHERECAS_ERROR_NONE
              /\ SameBlock(events[1], d)

\* The same for the declared lengths below 0xFFFF.
C1_BelowFFFF ==
    (tape # << >> /\ WellFormed(tape[1]) /\ <<tape[1].hi, tape[1].lo>> # <<255, 255>>) =>
        LET d == tape[1] IN
        /\ fed < CksPos(d) => events = << >>
        /\ (fed >= CksPos(d) /\ fed <= Len(EncodeBlock(d))) =>
              /\ Len(events) = 1
              /\ events[1].error = SPHERECAS_ERROR_NONE
              /\ SameBlock(events[1], d)

\* The second block is recovered when both length fields are below 0xFFFF
\* and the first block's is the length of its payload, whatever its payload
\* bytes, end marker and checksum byte are.
C2_LengthFieldsIntact ==
    (/\ Len(tape) = 2
     /\ fed = Len(stream)
     /\ <<tape[1].hi, tape[1].lo>> # <<255, 255>>
     /\ <<tape[2].hi, tape[2].lo>> # <<255, 255>>
     /\ Len(tape[1].payload) = DeclaredCount(tape[1])) =>
        /\ events # << >>
        /\ LastEvent.error = SPHERECAS_ERROR_NONE
        /\ SameBlock(LastEvent, tape[2])

\* C2: on a tape of two blocks, whatever was damaged in the first, the
\* well-formed second block is the last event, with no error, its name and
\* its payload; when the first is well-formed too the events are the two
\* blocks in tape order.
C2_NextBlockRecovered ==
    (Len(tape) = 2 /\ fed = Len(stream)) =>
        /\ events # << >>
        /\ LastEvent.error = SPHERECAS_ERROR_NONE
        /\ SameBlock(LastEvent, tape[2])
        /\ WellFormed(tape[1]) =>
              /\ Len(events) = 2
              /\ events[1].error = SPHERECAS_ERROR_NONE
              /\ SameBlock(events[1], tape[1])

\* A block before one payload byte of it changed: d is what the tape holds,
\* the recorded block had byte v at payload place i and was well-formed.
FlippedFrom(d, i, v) ==
    /\ v # d.payload[i]
    /\ WellFormed([d EXCEPT !.payload[i] = v])

PayloadByteFlipped(d) ==
    \E i \in 1..Len(d.payload) : \E v \in AllBytes : FlippedFrom(d, i, v)

\* C3: a first block that was well-formed until one payload byte changed to
\* another value, the checksum byte left as it was recorded, is reported
\* with the checksum error, never with no error.
C3_PayloadFlipChecksumError ==
    (tape # << >> /\ fed >= CksPos(tape[1]) /\ PayloadByteFlipped(tape[1])) =>
        /\ events # << >>
        /\ events[1].error = SPHERECAS_ERROR_CHECKSUM
        /\ SameBlock(events[1], tape[1])

C3_Witness ==
    /\ tape # << >>
    /\ Len(tape[1].payload) = 2
    /\ PayloadByteFlipped(tape[1])
    /\ fed = CksPos(tape[1])
    /\ Len(events) = 1
    /\ events[1].error = SPHERECAS_ERROR_CHECKSUM

\* The payload the decoder holds for the block it is reading.
Accumulated == SubSeq(state.data, 1, state.data_count_read)

\* C4: in the end-marker state every byte but 0x17 makes exactly one
\* callback call, with the trailer error and the whole payload read (all
\* the bytes the length field declared), and leaves the decoder as
\* spherecas_begin_read does: looking for a sync byte, nothing of the byte
\* kept, also when the byte is 0x16.
C4_TrailerError ==
    state.read_state = READ_ETB =>
        \A byte \in AllBytes \ {HEADER_ETB} :
            LET r == spherecas_read_byte(state, byte) IN
            /\ Len(r.out) = 1
            /\ r.out[1].error = SPHERECAS_ERROR_TRAILER
            /\ r.out[1].block_name = state.block_name
            /\ r.out[1].length = state.data_count_expected
            /\ r.out[1].data = Accumulated
            /\ r.out[1].type = state.block_type
            /\ r.state.read_state = READ_SYNC
            /\ r.state.data_count_read = 0
            /\ r.state.data_count_expected = 0
            /\ r.state.checksum = 0
            /\ r.state.block_type = SPHERECAS_BLOCKTYPE_TEXT

C4_Witness ==
    /\ Len(events) = 1
    /\ events[1].error = SPHERECAS_ERROR_TRAILER
    /\ events[1].length = 2
    /\ state.read_state = READ_SYNC
    /\ fed = 9

\* C5: in the checksum state the callback is called with no error exactly
\* for the byte that is the sum of the payload bytes modulo 256 and with the
\* checksum error for every other byte; the name, length, payload and type
\* it is called with are the block's, whichever byte comes.
C5_ChecksumDecidesError ==
    state.read_state = READ_CHECKSUM =>
        \A byte \in AllBytes :
            LET r == spherecas_read_byte(state, byte) IN
            /\ Len(r.out) = 1
            /\ r.out[1].error = IF byte = Sum(Accumulated) % 256
                                THEN SPHERECAS_ERROR_NONE
                                ELSE SPHERECAS_ERROR_CHECKSUM
            /\ r.out[1].block_name = state.block_name
            /\ r.out[1].length = state.data_count_read
            /\ r.out[1].data = Accumulated
            /\ r.out[1].type = state.block_type

C5_Witness ==
    /\ Len(events) = 1
    /\ events[1].error = SPHERECAS_ERROR_CHECKSUM
    /\ events[1].data = <<255>>
    /\ state.read_state = READ_SYNC

\* C6: a block whose length bytes are 0xFF 0xFF gives data_count_expected 0,
\* and after its second name byte the decoder is waiting for the end marker
\* with no payload byte read; the byte after the name is not stored as data.
C6_DeclaredFFFFExpectsEtb ==
    (tape # << >> /\ <<tape[1].hi, tape[1].lo>> = <<255, 255>>) =>
        /\ fed = HeaderEnd(tape[1]) =>
              /\ state.data_count_expected = 0
              /\ state.data_count_read = 0
              /\ state.read_state = READ_ETB
        /\ (fed = HeaderEnd(tape[1]) + 1 /\ Len(stream) > HeaderEnd(tape[1])) =>
              state.data_count_read = 0

\* C7: the decoder never holds more payload bytes than the length field
\* declared, and never expects more than 65536.
C7_ReadWithinExpected ==
    /\ state.data_count_read <= state.data_count_expected
    /\ state.data_count_expected <= 65536

\* The decoder's state and callback calls after all of a tape, from a fresh
\* decoder whose block_name held n.
Decoded(t, n) ==
    LET bytes == EncodeTape(t) IN spherecas_read_bytes(InitState(n), bytes, Len(bytes))

\* The decoder is looking for a sync run when block j of the tape begins.
SeekingBefore(j, n) ==
    Decoded(SubSeq(tape, 1, j - 1), n).state.read_state \in {READ_SYNC, READ_HEADER_START}

\* Sync run lengths the tape is compared with (the nominal 3, and 5).
SyncRuns == 1..(MaxSync + 3)

\* C8: the number of 0x16 bytes before the escape of a block the decoder
\* is looking for makes no difference: with any other run length of one or
\* more, the same tape gives the same callback calls and leaves the
\* decoder in the same state.
C8_SyncRunLengthIndependent ==
    fed = Len(stream) =>
        \A j \in 1..Len(tape) : \A k \in SyncRuns : \A n \in UninitNames :
            SeekingBefore(j, n) =>
                Decoded([tape EXCEPT ![j].sync = k], n) = [state |-> state, out |-> events]

C8_Witness ==
    /\ fed = Len(stream)
    /\ Len(tape) = 2
    /\ tape[1].sync = 1
    /\ tape[2].sync = MaxSync
    /\ Len(events) = 2
    /\ events[2].error = SPHERECAS_ERROR_NONE

HighBit(seq) == \E j \in 1..Len(seq) : seq[j] >= 128

\* C9: every callback call says Text exactly when all payload bytes of its
\* block are below 0x80 and Object exactly when one is 0x80 or above; the
\* decoder's type is Object from the first such byte of the block it is
\* reading to the end of that block, and Text again for the next.
C9_TypeFollowsHighBit ==
    /\ \A i \in 1..Len(events) :
          /\ events[i].type = SPHERECAS_BLOCKTYPE_TEXT <=> ~HighBit(events[i].data)
          /\ events[i].type = SPHERECAS_BLOCKTYPE_OBJECT <=> HighBit(events[i].data)
    /\ state.block_type = SPHERECAS_BLOCKTYPE_TEXT <=> ~HighBit(Accumulated)
    /\ state.block_type = SPHERECAS_BLOCKTYPE_OBJECT <=> HighBit(Accumulated)

C9_Witness ==
    /\ Len(events) = 2
    /\ events[1].type = SPHERECAS_BLOCKTYPE_OBJECT
    /\ events[1].data = <<128, 22>>
    /\ events[2].type = SPHERECAS_BLOCKTYPE_TEXT
    /\ events[2].data = <<1>>

\* C10: the checksum field is always the sum modulo 256 of the payload bytes
\* stored so far for the block being read, and a byte fed in any state but
\* the data state is never added to it: the field stays, or is zeroed with
\* the rest by the reset after a callback call.
C10_ChecksumIsPayloadSum ==
    /\ state.checksum = Sum(Accumulated) % 256
    /\ state.read_state # READ_DATA =>
          \A byte \in AllBytes :
              LET r == spherecas_read_byte(state, byte) IN
              \/ r.state.checksum = state.checksum
              \/ r.out # << >> /\ r.state.checksum = 0 /\ r.state.data_count_read = 0

C10_Witness ==
    /\ state.read_state = READ_CHECKSUM
    /\ Sum(Accumulated) = 278
    /\ state.checksum = 22

\* C11: the callback is called only by a byte other than 0x17 in the
\* end-marker state and by any byte in the checksum state, once each; a
\* byte in any other state, and 0x17 in the end-marker state, calls nothing.
C11_EmitsOnlyLeavingTrailerOrChecksum ==
    \A byte \in AllBytes :
        Len(spherecas_read_byte(state, byte).out) =
            IF \/ state.read_state = READ_ETB /\ byte # HEADER_ETB
               \/ state.read_state = READ_CHECKSUM
            THEN 1 ELSE 0

C11_Witness ==
    /\ fed = CksPos(tape[1])
    /\ Len(events) = 1
    /\ events[1].length = 2
    /\ state.read_state = READ_SYNC

\* The five fields as spherecas_begin_read leaves them.
AsBegun(st) ==
    /\ st.read_state = READ_SYNC
    /\ st.data_count_expected = 0
    /\ st.data_count_read = 0
    /\ st.checksum = 0
    /\ st.block_type = SPHERECAS_BLOCKTYPE_TEXT

\* C12: whatever byte makes a callback call (no error, checksum error or
\* trailer error), the decoder is afterwards as spherecas_begin_read leaves
\* it: looking for sync, both counts 0, checksum 0, type Text.
C12_ResetAfterEveryEvent ==
    \A byte \in AllBytes :
        LET r == spherecas_read_byte(state, byte) IN
        r.out # << >> => AsBegun(r.state)

C12_Witness ==
    /\ fed = CksPos(tape[1])
    /\ Len(events) = 1
    /\ events[1].type = SPHERECAS_BLOCKTYPE_OBJECT
    /\ AsBegun(state)

\* C19: looking for sync, a byte other than 0x16 changes nothing and calls
\* nothing; after a sync byte, a byte that is neither 0x16 nor 0x1B sends the
\* decoder back to looking for sync and calls nothing; the length state is
\* entered only by 0x1B after a sync byte, and the state after a sync byte
\* only by 0x16.
C19_SyncSearch ==
    \A byte \in AllBytes :
        LET r == spherecas_read_byte(state, byte) IN
        /\ (state.read_state = READ_SYNC /\ byte # HEADER_SYNC) =>
              r = [state |-> state, out |-> << >>]
        /\ (state.read_state = READ_HEADER_START /\ byte \notin {HEADER_SYNC, HEADER_ESC}) =>
              r = [state |-> [state EXCEPT !.read_state = READ_SYNC], out |-> << >>]
        /\ r.state.read_state = READ_DATA_LENGTH_HIGH =>
              state.read_state = READ_HEADER_START /\ byte = HEADER_ESC
        /\ r.state.read_state = READ_HEADER_START =>
              state.read_state \in {READ_SYNC, READ_HEADER_START} /\ byte = HEADER_SYNC

C19_Witness ==
    /\ tape[1].pad = <<0, HEADER_SYNC, 0>>
    /\ fed = CksPos(tape[1]) + 3
    /\ Len(events) = 1
    /\ state.read_state = READ_SYNC

\* The listing lines printed so far, the ordinals of the files written.
BlockLines == SelectSeq(stdout, LAMBDA l : l.line = "block")

\* C16: the k-th callback call is listed with ordinal k, the names of the
\* files written carry distinct ordinals, and the count printed at the end is
\* the number of callback calls; with option -l and without, also when fopen
\* fails.
C16_OrdinalsAndCount ==
    /\ Len(BlockLines) = Len(events)
    /\ \A k \in 1..Len(BlockLines) : BlockLines[k].ordinal = k
    /\ \A i, j \in 1..Len(files) :
          /\ files[i].file.ordinal # << >>
          /\ i # j => files[i].file.ordinal # files[j].file.ordinal
    /\ \A k \in 1..Len(stdout) :
          stdout[k].line = "done" => stdout[k].count = Len(events)

\* Supporting: the same with no fopen failure and no NUL in a block name.
C16_WhenEveryFileOpens ==
    (/\ \A k \in 1..Len(stdout) : stdout[k].line # "failed"
     /\ \A k \in 1..Len(events) : 0 \notin {events[k].block_name[1], events[k].block_name[2]})
    => C16_OrdinalsAndCount

\* C15: whatever the three trailer bytes after a block's checksum byte are,
\* the well-formed block after them is reported with no error, its name and
\* its payload (stated for declared lengths below 0xFFFF; 0xFFFF is C6's
\* case).
C15_TrailerBytesAreNoise ==
    (/\ Len(tape) = 2 /\ WellFormed(tape[1]) /\ fed = Len(stream)
     /\ <<tape[1].hi, tape[1].lo>> # <<255, 255>>
     /\ <<tape[2].hi, tape[2].lo>> # <<255, 255>>) =>
        /\ events # << >>
        /\ LastEvent.error = SPHERECAS_ERROR_NONE
        /\ SameBlock(LastEvent, tape[2])

\* Supporting: the same for trailer bytes that hold no 0x16 followed by 0x1B,
\* both declared lengths below 0xFFFF.
C15_NoHeaderInTrailer ==
    (/\ Len(tape) = 2 /\ WellFormed(tape[1]) /\ fed = Len(stream)
     /\ <<tape[1].hi, tape[1].lo>> # <<255, 255>>
     /\ <<tape[2].hi, tape[2].lo>> # <<255, 255>>
     /\ \A i \in 1..2 : <<tape[1].pad[i], tape[1].pad[i + 1]>> # <<HEADER_SYNC, HEADER_ESC>>)
    => /\ events # << >>
       /\ LastEvent.error = SPHERECAS_ERROR_NONE
       /\ SameBlock(LastEvent, tape[2])

\* C20: every store of READ_DATA is inside data[0..65535], and no callback
\* call is given a length above 65536.
C20_StoresInsideData ==
    /\ memory = "ok"
    /\ state.read_state = READ_DATA => state.data_count_read <= DataSize
    /\ \A k \in 1..Len(events) : events[k].length <= DataSize

\* The step the start of SpecOverflow rests on: in READ_DATA with
\* data_count_expected 0, a byte 00 stores one cell and changes nothing else.
C20_LongBlockStep ==
    (state.read_state = READ_DATA /\ state.data_count_expected = 0) =>
        spherecas_read_byte(state, 0) =
            [state |-> [state EXCEPT !.data = StoreByte(@, state.data_count_read, 0),
                                     !.data_count_read = @ + 1],
             out |-> << >>]

\* What one call may do: at most one callback call, and the state it was in,
\* the next state or READ_SYNC afterwards.
OneStep(st, r) ==
    /\ Len(r.out) <= 1
    /\ r.state.read_state \in READ_SYNC..READ_CHECKSUM
    /\ r.state.read_state \in {st.read_state, st.read_state + 1, READ_SYNC}

\* C13: in every state and for every byte 0..255, spherecas_read_byte takes
\* the byte, makes at most one state transition and at most one callback
\* call, and returns; the process never fails in it.
C13_FeedIsTotal ==
    /\ memory # "crashed"
    /\ (state.read_state = READ_DATA => state.data_count_read < DataSize) =>
          \A byte \in AllBytes : OneStep(state, spherecas_read_byte(state, byte))

\* Supporting: the same where the store of READ_DATA is inside the array.
C13_TotalInsideData ==
    (state.read_state = READ_DATA => state.data_count_read < DataSize) =>
        \A byte \in AllBytes : OneStep(state, spherecas_read_byte(state, byte))

\* The number of payload bytes the length field of the header declared, L + 1
\* (data_count_expected holds it modulo 0x10000).
DeclaredBytes(st) == ((st.data_count_expected + UINT16_MOD - 1) % UINT16_MOD) + 1

\* What READ_DATA does with a byte of a block declaring n payload bytes.
AppendsOnly(st, byte, n) ==
    LET r == spherecas_read_byte(st, byte) IN
    /\ r.out = << >>
    /\ r.state.data_count_read = st.data_count_read + 1
    /\ r.state.data[st.data_count_read + 1] = byte
    /\ r.state.read_state = IF st.data_count_read + 1 = n THEN READ_ETB ELSE READ_DATA

\* C18: after a header declaring length L the next L + 1 bytes, whatever
\* their values, are stored in order as payload, then the decoder waits for
\* the end marker; every callback call has length L + 1.
C18_ExactlyDeclaredBytes ==
    /\ state.read_state = READ_DATA =>
          /\ state.data_count_read < DeclaredBytes(state)
          /\ \A byte \in AllBytes : AppendsOnly(state, byte, DeclaredBytes(state))
    /\ state.read_state \in {READ_ETB, READ_CHECKSUM} =>
          /\ state.data_count_read = DeclaredBytes(state)
          /\ \A byte \in AllBytes :
                \A k \in 1..Len(spherecas_read_byte(state, byte).out) :
                    spherecas_read_byte(state, byte).out[k].length = DeclaredBytes(state)

\* Supporting: the same for the declared lengths below 0xFFFF.
C18_BelowFFFF ==
    state.data_count_expected # 0 => C18_ExactlyDeclaredBytes

\* C14: a stream that ends inside a well-formed block, before the byte that
\* leaves the end-marker or the checksum state, gives no callback call for
\* that block: none at all inside the first block, and only the first
\* block's inside the second.
C14_TruncatedBlockSilent ==
    /\ (tape # << >> /\ WellFormed(tape[1]) /\ fed < CksPos(tape[1])) =>
          /\ events = << >>
          /\ \A n \in UninitNames :
                spherecas_read_bytes(InitState(n), SubSeq(stream, 1, fed), fed).out = << >>
    /\ (/\ Len(tape) = 2
        /\ WellFormed(tape[1])
        /\ fed >= Len(EncodeBlock(tape[1]))
        /\ fed < Len(EncodeBlock(tape[1])) + CksPos(tape[2])) =>
          Len(events) <= 1

C14_Witness ==
    /\ WellFormed(tape[1])
    /\ Len(tape[1].payload) = 2
    /\ fed = HeaderEnd(tape[1]) + 1
    /\ state.read_state = READ_DATA
    /\ state.data_count_read = 1
    /\ events = << >>

\* C17: spherecas_read_bytes over the first count bytes of the input ends in
\* the state and with the callback calls of count calls of
\* spherecas_read_byte, one per byte in order, and does nothing when count
\* is zero or negative.
C17_ReadBytesIsTheLoop ==
    /\ \E n \in UninitNames :
          spherecas_read_bytes(InitState(n), stream, fed) =
              [state |-> state, out |-> events]
    /\ \A count \in {-1, 0} :
          spherecas_read_bytes(state, SubSeq(stream, fed + 1, Len(stream)), count) =
              [state |-> state, out |-> << >>]

C17_Witness ==
    /\ Len(tape) = 2
    /\ fed = Len(stream)
    /\ Len(events) = 2
    /\ events[2].error = SPHERECAS_ERROR_NONE

====
